---- MODULE Spec2Model ----
(***************************************************************************)
(* Model of omgtools/problems/problem.py (class Problem): the receding-    *)
(* horizon solve loop, the danger-zone adapter (enlarge_danger_zones) and  *)
(* the velocity-limit governor (update_vehicle_limits).                    *)
(*                                                                         *)
(* Numbers are fixed-point with three decimals: the integer 2075 stands    *)
(* for 2.075.  The inputs are drawn from sets on which every product and   *)
(* quotient of the code is exact in that representation.                   *)
(***************************************************************************)
EXTENDS Integers, Sequences, FiniteSets, TLC

VARIABLES
    vehicles,        \* self.vehicles: sequence of vehicle objects (1-based)
    syslimit,        \* self.vehicles[0].options['syslimit']
    veh_signals,     \* self.vehicles[0].signals['state'] (NoAttr: no attribute yet)
    veh_prediction,  \* self.vehicles[0].prediction['state']
    veh_trajectories,\* self.vehicles[0].trajectories['state'] (NoAttr: none yet)
    danger_zones,    \* self.environment.danger_zones
    variables,       \* self.father primal variables (spline blocks and the rest)
    dual_variables,  \* self.father dual variables
    iteration,       \* self.iteration
    update_times,    \* self.update_times
    start_time,      \* self.start_time
    verbose,         \* self.options['verbose']
    ticks,           \* number of solve calls made so far
    call             \* record of the last call: what ran, what it raised, what the solver got

vars == <<vehicles, syslimit, veh_signals, veh_prediction, veh_trajectories,
          danger_zones, variables, dual_variables, iteration, update_times,
          start_time, verbose, ticks, call>>

(***************************************************************************)
(* Bounds of the model.                                                    *)
(***************************************************************************)
MaxVehicles == 2
MaxZones == 2
MaxTicks == 3
MaxSeg == 2

(***************************************************************************)
(* Python values.                                                          *)
(***************************************************************************)
\* an attribute that has not been set (hasattr(...) is False)
NoAttr == <<>>

hasattr(attr) == attr # NoAttr

Abs(x) == IF x < 0 THEN -x ELSE x

Max2(a, b) == IF a >= b THEN a ELSE b

\* fixed-point product and quotient (three decimals)
FMul(a, b) == (a * b) \div 1000

FDiv(a, b) == (a * 1000) \div b

Circle(r) == [type |-> "Circle", radius |-> r]

Rectangle(w, h) == [type |-> "Rectangle", width |-> w, height |-> h]

(***************************************************************************)
(* Geometry collaborators (omgtools/basics/geometry.py, environment).      *)
(***************************************************************************)
RECURSIVE ISqrtLoop(_, _, _)
ISqrtLoop(n, lo, hi) ==
    IF lo >= hi THEN lo
    ELSE LET mid == (lo + hi + 1) \div 2
         IN IF mid * mid <= n THEN ISqrtLoop(n, mid, hi) ELSE ISqrtLoop(n, lo, mid - 1)

SqDist(p, q) == (p[1] - q[1]) * (p[1] - q[1]) + (p[2] - q[2]) * (p[2] - q[2])

\* sqrt((px-qx)^2 + (py-qy)^2); the inputs of the model keep it exact
euclidean_distance_between_points(p, q) == ISqrtLoop(SqDist(p, q), 0, 40000)

\* per-axis absolute distance
distance_between_points(p, q) == <<Abs(p[1] - q[1]), Abs(p[2] - q[2])>>

\* half extents of a shape along x and y, and the radius of its rounded corner
HalfX(shape) == IF shape.type = "Circle" THEN 0 ELSE shape.width \div 2

HalfY(shape) == IF shape.type = "Circle" THEN 0 ELSE shape.height \div 2

Round(shape) == IF shape.type = "Circle" THEN shape.radius ELSE 0

\* do two axis-aligned shapes (circle or rectangle) at the given centres touch?
shapes_overlap(shape1, pos1, shape2, pos2) ==
    LET gx == Max2(Abs(pos1[1] - pos2[1]) - HalfX(shape1) - HalfX(shape2), 0)
        gy == Max2(Abs(pos1[2] - pos2[2]) - HalfY(shape1) - HalfY(shape2), 0)
        r  == Round(shape1) + Round(shape2)
    IN gx * gx + gy * gy <= r * r

circle_polyhedron_intersection(circle, circle_pos, polyhedron, polyhedron_pos) ==
    shapes_overlap(circle, circle_pos, polyhedron, polyhedron_pos)

(***************************************************************************)
(* Vehicle collaborator (omgtools/vehicles).                               *)
(***************************************************************************)
\* vehicle.set_velocities(vel_limits): [vmax] in scalar mode,
\* [vxmin, vymin, vxmax, vymax] in per-axis mode, become the active bounds
set_velocities(vehicle, vel_limits) ==
    IF Len(vel_limits) = 4
    THEN [vehicle EXCEPT !.vxmin = vel_limits[1], !.vymin = vel_limits[2],
                         !.vxmax = vel_limits[3], !.vymax = vel_limits[4]]
    ELSE [vehicle EXCEPT !.vmax = vel_limits[1]]

\* vehicle.get_init_spline_value(): the default guess of vehicle k, an array
\* with one column per spline of that vehicle
get_init_spline_value(k, vehicle) == [src |-> "default", id |-> k, cols |-> vehicle.n_spl]

(***************************************************************************)
(* enlarge_danger_zones                                                    *)
(***************************************************************************)
\* position of the first vehicle as both zone functions read it
VehPos(signals, prediction) ==
    IF hasattr(signals) THEN signals[Len(signals)] ELSE prediction

\* veh_pos[:2]: the orientation is dropped
Planar(pos) == <<pos[1], pos[2]>>

\* zone.signals['position'][:,-1]
ZonePos(zone) == zone.position

\* lines 214-223: index (1-based) of the zone closest to the vehicle; min_dist
\* starts at np.inf (here <<>>) and only a strictly smaller distance replaces
\* it.  The distances are compared by their squares, which orders them alike.
RECURSIVE ClosestZoneLoopLastOfEqual(_, _, _, _, _)
ClosestZoneLoopLastOfEqual(zones, veh_pos, idx, min_dist, closest_zone_idx) ==
    IF idx > Len(zones) THEN closest_zone_idx
    ELSE LET dist == SqDist(Planar(veh_pos), ZonePos(zones[idx]))
         IN IF min_dist = <<>> \/ dist <= min_dist[1]
            THEN ClosestZoneLoopLastOfEqual(zones, veh_pos, idx + 1, <<dist>>, idx)
            ELSE ClosestZoneLoopLastOfEqual(zones, veh_pos, idx + 1, min_dist,
                                            closest_zone_idx)

RECURSIVE ClosestZoneLoop(_, _, _, _, _)
ClosestZoneLoop(zones, veh_pos, idx, min_dist, closest_zone_idx) ==
    IF idx > Len(zones) THEN closest_zone_idx
    ELSE LET dist == SqDist(Planar(veh_pos), ZonePos(zones[idx]))
         IN IF min_dist = <<>> \/ dist < min_dist[1]
            THEN ClosestZoneLoop(zones, veh_pos, idx + 1, <<dist>>, idx)
            ELSE ClosestZoneLoop(zones, veh_pos, idx + 1, min_dist, closest_zone_idx)

\* lines 236-262: brake distance before the vehicle size is added
BrakeDistFromRest(vehicle, zone, limit) ==
    LET amax == IF limit = "norm_2" THEN vehicle.amax ELSE vehicle.axmax
        vel_difference == IF limit = "norm_2" THEN vehicle.vmax - zone.bounds.vmax
                          ELSE Max2(vehicle.vxmax - zone.bounds.vxmax,
                                    vehicle.vymax - zone.bounds.vymax)
        t_slow_down == Abs(FDiv(vel_difference, amax))
    IN FMul(FMul(amax, FMul(t_slow_down, t_slow_down)), 500)

BrakeDist(vehicle, zone, limit) ==
    IF limit = "norm_2"
    THEN LET vel_difference == vehicle.vmax - zone.bounds.vmax
             t_slow_down == Abs(FDiv(vel_difference, vehicle.amax))
         IN FMul(FMul(vehicle.amax, FMul(t_slow_down, t_slow_down)), 500)
            + FMul(vehicle.vmax - FMul(vehicle.amax, t_slow_down), t_slow_down)
    ELSE LET old_limits == <<vehicle.vxmax, vehicle.vymax>>
             new_limits == <<zone.bounds.vxmax, zone.bounds.vymax>>
             vel_difference == Max2(old_limits[1] - new_limits[1],
                                    old_limits[2] - new_limits[2])
             t_slow_down == Abs(FDiv(vel_difference, vehicle.axmax))
         IN FMul(FMul(vehicle.axmax, FMul(t_slow_down, t_slow_down)), 500)
            + FMul(vehicle.vxmax - FMul(vehicle.axmax, t_slow_down), t_slow_down)

\* line 266: the vehicle size is added to the brake distance
MarginWithoutSize(vehicle, zone, limit, veh_size) == BrakeDist(vehicle, zone, limit)

Margin(vehicle, zone, limit, veh_size) == BrakeDist(vehicle, zone, limit) + veh_size

\* lines 298-303: 0-based index of the first trajectory sample whose vehicle
\* circle intersects the zone, -1 when there is none
RECURSIVE FirstIntersection(_, _, _, _)
FirstIntersection(circle, traj, zone, idx) ==
    IF idx >= Len(traj) THEN -1
    ELSE IF circle_polyhedron_intersection(circle, traj[idx + 1], zone.shape, ZonePos(zone))
         THEN idx
         ELSE FirstIntersection(circle, traj, zone, idx + 1)

\* current_traj[:, i] with Python's indexing: -1 is the last sample
TrajAt(traj, i) == IF i < 0 THEN traj[Len(traj) + 1 + i] ELSE traj[i + 1]

\* lines 312-321: walk back over the trajectory until brake_dist is covered
RECURSIVE BackwardWalkUnguarded(_, _, _, _, _)
BackwardWalkUnguarded(traj, brake_dist, curr_dist, curr_point, i) ==
    IF curr_dist < brake_dist
    THEN LET prev_point == TrajAt(traj, i - 1)
             dist == curr_dist + euclidean_distance_between_points(curr_point, prev_point)
         IN BackwardWalkUnguarded(traj, brake_dist, dist, prev_point, i - 1)
    ELSE [raised |-> "none", outer_point |-> <<curr_point>>, i |-> i]

RECURSIVE BackwardWalk(_, _, _, _, _)
BackwardWalk(traj, brake_dist, curr_dist, curr_point, i) ==
    IF curr_dist < brake_dist
    THEN LET prev_point == TrajAt(traj, i - 1)
             dist == curr_dist + euclidean_distance_between_points(curr_point, prev_point)
         IN IF i - 1 < 0
            THEN [raised |-> "RuntimeError: no point far enough", outer_point |-> NoAttr, i |-> i - 1]
            ELSE BackwardWalk(traj, brake_dist, dist, prev_point, i - 1)
    ELSE [raised |-> "none", outer_point |-> <<curr_point>>, i |-> i]

\* lines 326-342: the rectangle is resized so that its border runs through outer_point
ResizeRectangle(zone, outer_point, veh_size) ==
    LET marked == [zone EXCEPT !.old_dimensions = <<zone.shape.width, zone.shape.height>>]
        distances == distance_between_points(outer_point, ZonePos(zone))
        w0 == zone.shape.width
        h0 == zone.shape.height
    IN IF distances[1] > FMul(w0, 500)
       THEN LET w1 == w0 + 2 * (distances[1] - FMul(w0, 500))
                h1 == h0 + 2 * (distances[1] - FMul(w1, 500))
            IN [zone |-> [marked EXCEPT !.shape.width = w1, !.shape.height = h1],
                raised |-> "none"]
       ELSE IF distances[2] > FMul(h0, 500)
       THEN LET w1 == w0 + 2 * (distances[2] - veh_size - FMul(h0, 500))
                h1 == h0 + 2 * (distances[2] - veh_size - FMul(h0, 500))
            IN [zone |-> [marked EXCEPT !.shape.width = w1, !.shape.height = h1],
                raised |-> "none"]
       ELSE [zone |-> marked, raised |-> "RuntimeError: not in a corridor"]

\* lines 268-346: enlarge one zone by brake_dist (the vehicle size included)
EnlargeZone(zone, vehicle, trajectories, brake_dist, veh_size) ==
    IF zone.shape.type = "Circle"
    THEN [zone |-> [zone EXCEPT !.old_dimensions = <<zone.shape.radius>>,
                                !.shape.radius = zone.shape.radius + brake_dist],
          raised |-> "none"]
    ELSE IF zone.shape.type = "Rectangle"
    THEN IF hasattr(trajectories)
         THEN LET current_traj == trajectories
                  intersection_idx == FirstIntersection(vehicle.shapes, current_traj, zone, 0)
              IN IF intersection_idx >= 0
                 THEN LET walk == BackwardWalk(current_traj, brake_dist, 0,
                                               TrajAt(current_traj, intersection_idx),
                                               intersection_idx)
                      IN IF walk.raised # "none"
                         THEN [zone |-> zone, raised |-> walk.raised]
                         ELSE ResizeRectangle(zone, walk.outer_point[1], veh_size)
                 ELSE [zone |-> zone, raised |-> "none"]
         ELSE [zone |-> zone, raised |-> "none"]
    ELSE [zone |-> zone, raised |-> "RuntimeError: unsupported zone shape"]

\* lines 227-229: a zone that carries old_dimensions is left alone
AlreadyEnlargedIgnored(zone) == FALSE

AlreadyEnlarged(zone) == hasattr(zone.old_dimensions)

\* line 209: np.max(width, height) passes height as the axis of the scalar
\* width instead of returning the larger side.  What comes out depends on the
\* numpy in use: one that insists on an integer axis raises TypeError; one that
\* truncates the axis to an integer returns width when the height is below 1
\* (axis 0 of a scalar) and raises for any other height (no such axis).
NpMax(width, height) ==
    { [raised |-> "TypeError: np.max axis", value |-> 0] }
    \cup { IF height < 1000
           THEN [raised |-> "none", value |-> width]
           ELSE [raised |-> "ValueError: np.max axis", value |-> 0] }

\* lines 206-211: the possible outcomes of computing veh_size
VehSize(shape) ==
    IF shape.type = "Circle" THEN { [raised |-> "none", value |-> shape.radius] }
    ELSE IF shape.type = "Rectangle" THEN NpMax(shape.width, shape.height)
    ELSE { [raised |-> "RuntimeError: unsupported vehicle shape", value |-> 0] }

\* the whole function: the zones afterwards and the exception raised, if any;
\* size is the outcome of lines 206-211 in this call
enlarge_danger_zones(zones, vehs, signals, prediction, trajectories, limit, size) ==
    IF zones # <<>>
    THEN LET veh_pos == VehPos(signals, prediction)
         IN IF size.raised # "none"
            THEN [danger_zones |-> zones, raised |-> size.raised]
            ELSE LET veh_size == size.value
                     closest_zone_idx == ClosestZoneLoop(zones, veh_pos, 1, <<>>, 0)
                     zone_to_change == zones[closest_zone_idx]
                 IN IF AlreadyEnlarged(zone_to_change)
                    THEN [danger_zones |-> zones, raised |-> "none"]
                    ELSE LET brake_dist == Margin(vehs[1], zone_to_change, limit, veh_size)
                             res == EnlargeZone(zone_to_change, vehs[1], trajectories,
                                                brake_dist, veh_size)
                         IN [danger_zones |-> [zones EXCEPT ![closest_zone_idx] = res.zone],
                             raised |-> res.raised]
    ELSE [danger_zones |-> zones, raised |-> "none"]

(***************************************************************************)
(* update_vehicle_limits                                                   *)
(***************************************************************************)
\* Python truth value of an accumulator: [] and 0 are false
Truthy(acc) == acc # <<>> /\ acc # <<0>>

\* lines 368-375 and 378-379: the running bound after one more zone bound
KeepLarger(acc, bound) == IF ~Truthy(acc) \/ bound > acc[1] THEN <<bound>> ELSE acc

KeepSmaller(acc, bound) == IF ~Truthy(acc) \/ bound < acc[1] THEN <<bound>> ELSE acc

\* lines 356-357: vxmin, vymin, vxmax, vymax, vmax = [], [], [], [], []
EmptyLimits == [vxmin |-> <<>>, vymin |-> <<>>, vxmax |-> <<>>, vymax |-> <<>>, vmax |-> <<>>]

\* lines 367-380: the accumulators after the bounds of one overlapping zone
Accumulate(acc, zone, limit) ==
    IF limit = "norm_inf"
    THEN [acc EXCEPT !.vxmin = KeepLarger(acc.vxmin, zone.bounds.vxmin),
                     !.vymin = KeepLarger(acc.vymin, zone.bounds.vymin),
                     !.vxmax = KeepSmaller(acc.vxmax, zone.bounds.vxmax),
                     !.vymax = KeepSmaller(acc.vymax, zone.bounds.vymax)]
    ELSE [acc EXCEPT !.vmax = KeepSmaller(acc.vmax, zone.bounds.vmax)]

\* the list handed to set_velocities
VelLimits(acc, limit) ==
    IF limit = "norm_inf"
    THEN <<acc.vxmin[1], acc.vymin[1], acc.vxmax[1], acc.vymax[1]>>
    ELSE <<acc.vmax[1]>>

\* lines 363-382: for one overlapping zone, every vehicle in turn accumulates
\* the zone's bounds and receives the limits accumulated so far
RECURSIVE VehicleLoop(_, _, _, _, _)
VehicleLoop(vehs, k, acc, zone, limit) ==
    IF k > Len(vehs) THEN [vehicles |-> vehs, acc |-> acc]
    ELSE LET acc1 == Accumulate(acc, zone, limit)
         IN VehicleLoop([vehs EXCEPT ![k] = set_velocities(vehs[k], VelLimits(acc1, limit))],
                        k + 1, acc1, zone, limit)

\* lines 359-382: the loop over the zones
RECURSIVE ZoneLoop(_, _, _, _, _, _, _)
ZoneLoop(zones, idx, vehs, veh_pos, acc, in_danger_zone, limit) ==
    IF idx > Len(zones) THEN [vehicles |-> vehs, in_danger_zone |-> in_danger_zone]
    ELSE IF shapes_overlap(vehs[1].shapes, veh_pos, zones[idx].shape, ZonePos(zones[idx]))
         THEN LET r == VehicleLoop(vehs, 1, acc, zones[idx], limit)
              IN ZoneLoop(zones, idx + 1, r.vehicles, veh_pos, r.acc, TRUE, limit)
         ELSE ZoneLoop(zones, idx + 1, vehs, veh_pos, acc, in_danger_zone, limit)

\* lines 386-396: every vehicle gets its own original bounds back
RestoreOriginal(vehicle, limit) ==
    IF limit = "norm_inf"
    THEN set_velocities(vehicle, <<vehicle.original_bounds.vxmin, vehicle.original_bounds.vymin,
                                   vehicle.original_bounds.vxmax, vehicle.original_bounds.vymax>>)
    ELSE set_velocities(vehicle, <<vehicle.original_bounds.vmax>>)

\* the whole function: the vehicles afterwards
update_vehicle_limits(zones, vehs, signals, prediction, limit) ==
    IF zones # <<>>
    THEN LET veh_pos == VehPos(signals, prediction)
             r == ZoneLoop(zones, 1, vehs, veh_pos, EmptyLimits, FALSE, limit)
         IN IF ~r.in_danger_zone
            THEN [k \in DOMAIN vehs |-> RestoreOriginal(vehs[k], limit)]
            ELSE r.vehicles
    ELSE vehs

(***************************************************************************)
(* reset_init_guess and solve                                              *)
(***************************************************************************)
\* Python's None as an init_guess argument
None == [kind |-> "None"]

\* lines 173-178: the guess as a list
GuessList(init_guess, vehs) ==
    IF init_guess.kind = "None"
    THEN [k \in DOMAIN vehs |-> get_init_spline_value(k, vehs[k])]
    ELSE IF init_guess.kind # "list" THEN <<init_guess.value>>
    ELSE init_guess.items

\* lines 184-188: the segments of vehicle k, l = 0 .. n_seg-1
RECURSIVE SegmentLoop(_, _, _, _, _)
SegmentLoop(splines, vehs, guess, k, l) ==
    IF l >= vehs[k].n_seg THEN [splines |-> splines, raised |-> "none"]
    ELSE IF guess[l + 1].cols # vehs[k].n_spl
         THEN [splines |-> splines, raised |-> "ValueError: vehicle spline"]
         ELSE SegmentLoop([splines EXCEPT ![k][l + 1] = guess[l + 1]], vehs, guess, k, l + 1)

\* lines 180-188: the loop over the vehicles
RECURSIVE GuessLoop(_, _, _, _)
GuessLoop(splines, vehs, guess, k) ==
    IF k > Len(vehs) THEN [splines |-> splines, raised |-> "none"]
    ELSE IF Len(guess) # vehs[k].n_seg
         THEN [splines |-> splines, raised |-> "ValueError: spline segment"]
         ELSE LET r == SegmentLoop(splines, vehs, guess, k, 0)
              IN IF r.raised # "none" THEN r
                 ELSE GuessLoop(r.splines, vehs, guess, k + 1)

\* the whole function: the spline blocks afterwards and the exception raised
reset_init_guessFirstVehicleOnly(splines, vehs, init_guess) ==
    GuessLoop(splines, SubSeq(vehs, 1, 1), GuessList(init_guess, vehs), 1)

reset_init_guess(splines, vehs, init_guess) ==
    GuessLoop(splines, vehs, GuessList(init_guess, vehs), 1)

\* what self.problem(...) returns on its n-th invocation: a fresh primal
\* vector (one block per vehicle spline segment, and the rest) and multipliers
SolverPrimal(vehs, n) ==
    [splines |-> [k \in DOMAIN vehs |->
                     [l \in 1..vehs[k].n_seg |->
                         [src |-> "solver", id |-> n, cols |-> vehs[k].n_spl]]],
     rest |-> [src |-> "solver", id |-> n]]

SolverDual(n) == [src |-> "solver", id |-> n]

\* the variables after construction (father.init_variables)
InitPrimal(vehs) ==
    [splines |-> [k \in DOMAIN vehs |->
                     [l \in 1..vehs[k].n_seg |->
                         [src |-> "init", id |-> 0, cols |-> vehs[k].n_spl]]],
     rest |-> [src |-> "init", id |-> 0]]

InitDual == [src |-> "init", id |-> 0]

ReturnStatus == {"Solve_Succeeded", "Maximum_CpuTime_Exceeded", "Infeasible_Problem_Detected"}

\* line 60: the default of options['verbose']
DefaultVerbose == 2

\* lines 127-135: what the return status does to the spline blocks
StatusHandlingResetOnAnyFailure(splines, vehs, status, current_time) ==
    IF status # "Solve_Succeeded" /\ current_time # 0
    THEN reset_init_guess(splines, vehs, None)
    ELSE [splines |-> splines, raised |-> "none"]

StatusHandling(splines, vehs, status, current_time) ==
    IF status # "Solve_Succeeded"
    THEN IF status = "Maximum_CpuTime_Exceeded"
         THEN IF current_time # 0
              THEN reset_init_guess(splines, vehs, None)
              ELSE [splines |-> splines, raised |-> "none"]
         ELSE [splines |-> splines, raised |-> "none"]
    ELSE [splines |-> splines, raised |-> "none"]

\* Python values a caller passes to predict: a float, a list, a numpy array
Float(x) == [kind |-> "float", value |-> x]

List(items) == [kind |-> "list", items |-> items]

Array(items) == [kind |-> "array", items |-> items]

\* lines 146-147: None becomes a list of one None per vehicle
NoneToList(arg, vehs) == IF arg = None THEN List([k \in DOMAIN vehs |-> None]) ELSE arg

\* lines 152-156 (157-166 alike): with one vehicle, a value that is not a list
\* or a list that starts with a float is wrapped into a list; [][0] raises
NormalizeArgListsAsGiven(arg, vehs) ==
    LET a == NoneToList(arg, vehs)
    IN IF Len(vehs) = 1 /\ a.kind # "list"
       THEN [value |-> List(<<a>>), raised |-> "none"]
       ELSE [value |-> a, raised |-> "none"]

NormalizeArg(arg, vehs) ==
    LET a == NoneToList(arg, vehs)
    IN IF Len(vehs) = 1
       THEN IF a.kind # "list" THEN [value |-> List(<<a>>), raised |-> "none"]
            ELSE IF a.items = <<>> THEN [value |-> a, raised |-> "IndexError"]
            ELSE IF a.items[1].kind = "float" THEN [value |-> List(<<a>>), raised |-> "none"]
            ELSE [value |-> a, raised |-> "none"]
       ELSE [value |-> a, raised |-> "none"]

\* line 170: states[k], k = 1 for Python's index 0
Subscript(v, k) ==
    IF v.kind \in {"list", "array"}
    THEN IF k <= Len(v.items) THEN [value |-> v.items[k], raised |-> "none"]
         ELSE [value |-> None, raised |-> "IndexError"]
    ELSE [value |-> None, raised |-> "TypeError: not subscriptable"]

\* lines 169-170: what vehicle.predict is handed, vehicle after vehicle, until
\* a subscript raises
RECURSIVE PredictLoop(_, _, _, _, _, _, _, _)
PredictLoop(vehs, k, states, inputs, dinputs, enforce_states, enforce_inputs, handed) ==
    IF k > Len(vehs) THEN [handed |-> handed, raised |-> "none"]
    ELSE LET st == Subscript(states, k)
             inp == Subscript(inputs, k)
             dinp == Subscript(dinputs, k)
         IN IF st.raised # "none" THEN [handed |-> handed, raised |-> st.raised]
            ELSE IF inp.raised # "none" THEN [handed |-> handed, raised |-> inp.raised]
            ELSE IF dinp.raised # "none" THEN [handed |-> handed, raised |-> dinp.raised]
            ELSE PredictLoop(vehs, k + 1, states, inputs, dinputs, enforce_states,
                             enforce_inputs,
                             Append(handed, [states |-> st.value, inputs |-> inp.value,
                                             dinputs |-> dinp.value,
                                             enforce_states |-> enforce_states,
                                             enforce_inputs |-> enforce_inputs]))

\* lines 145-170; predict_time, sample_time and delay are passed on as they are
predict(vehs, start, current_time, states, inputs, dinputs, enforce_states, enforce_inputs) ==
    LET st == NormalizeArg(states, vehs)
        inp == NormalizeArg(inputs, vehs)
        dinp == NormalizeArg(dinputs, vehs)
    IN IF st.raised # "none" THEN [handed |-> <<>>, raised |-> st.raised]
       ELSE IF inp.raised # "none" THEN [handed |-> <<>>, raised |-> inp.raised]
       ELSE IF dinp.raised # "none" THEN [handed |-> <<>>, raised |-> dinp.raised]
       ELSE PredictLoop(vehs, 1, st.value, inp.value, dinp.value,
                        IF current_time = start THEN TRUE ELSE enforce_states,
                        enforce_inputs, <<>>)

\* lines 136-137: the counter belongs to the progress table of verbose >= 2
NextIterationAlways(it, verb) == it + 1

NextIteration(it, verb) == IF verb >= 2 THEN it + 1 ELSE it

(***************************************************************************)
(* Fleets, zones, positions and trajectories the model draws from.         *)
(***************************************************************************)
\* a holonomic vehicle with symmetric per-axis limits; the active bounds
\* start as the original bounds
MkVehicle(shape, vmax, vx, vy, amax, n_seg, n_spl) ==
    [shapes |-> shape, n_seg |-> n_seg, n_spl |-> n_spl,
     vmax |-> vmax, vxmin |-> -vx, vymin |-> -vy, vxmax |-> vx, vymax |-> vy,
     amax |-> amax, axmax |-> amax,
     original_bounds |-> [vmax |-> vmax, vxmin |-> -vx, vymin |-> -vy,
                          vxmax |-> vx, vymax |-> vy]]

\* the first vehicle of the fleet
LeadVehicles ==
    { MkVehicle(Circle(200), 2000, 2000, 2000, 1000, 1, 2),
      MkVehicle(Circle(300), 2000, 2000, 1000, 1000, 1, 2),
      MkVehicle(Circle(200), 500, 500, 1000, 500, 1, 2),
      MkVehicle(Rectangle(200, 400), 1000, 1000, 1000, 1000, 1, 2) }

\* the k-th further vehicle of the fleet
Follower(k) == MkVehicle(Circle(200), 1000 + 500 * k, 1000 + 500 * k, 1500, 1000, 1, 2)

MkZone(shape, position, vmax, vxmin, vymin, vxmax, vymax) ==
    [shape |-> shape, position |-> position, old_dimensions |-> NoAttr,
     bounds |-> [vmax |-> vmax, vxmin |-> vxmin, vymin |-> vymin,
                 vxmax |-> vxmax, vymax |-> vymax]]

ZoneTemplates ==
    { MkZone(Circle(1000), <<0, 0>>, 500, -500, -500, 500, 500),
      MkZone(Circle(500), <<-1500, 0>>, 0, 0, -1000, 1000, 0),
      MkZone(Circle(1000), <<6000, 0>>, 2000, -1000, -1500, 1000, 1500),
      MkZone(Rectangle(2000, 2000), <<0, 0>>, 500, -500, -1000, 500, 500) }

RECURSIVE DistinctSeqs(_, _)
DistinctSeqs(S, n) ==
    IF n = 0 THEN {<<>>}
    ELSE LET shorter == DistinctSeqs(S, n - 1)
         IN shorter \cup { Append(q, z) : q \in { p \in shorter : Len(p) = n - 1 },
                                          z \in S }

NoRepeat(q) == \A i, j \in DOMAIN q : i # j => q[i] # q[j]

ZoneLists == { q \in DistinctSeqs(ZoneTemplates, MaxZones) : NoRepeat(q) }

Positions == { <<-1000, 0>>, <<5000, 0>> }

\* a trajectory sampled every 1000 from `from` towards `to` along one axis
RECURSIVE Line(_, _, _, _)
Line(x, y, dx, n) == IF n = 0 THEN <<>> ELSE <<<<x, y>>>> \o Line(x + dx[1], y + dx[2], dx, n - 1)

Trajectories ==
    { Line(-6000, 0, <<1000, 0>>, 7),
      Line(0, -6000, <<0, 1000>>, 7),
      Line(-2000, 0, <<1000, 0>>, 3),
      Line(-6000, 0, <<1000, 0>>, 3) }

(***************************************************************************)
(* State after construction.                                               *)
(***************************************************************************)
\* nothing has been called yet; last holds the latest solver invocation, if any,
\* arg the argument of the latest reset_init_guess or predict call and handed
\* what that predict call handed to every vehicle
NoCall == [op |-> "init", raised |-> "none", enlarged |-> 0, last |-> <<>>,
           arg |-> NoAttr, handed |-> NoAttr, steps |-> <<>>]

\* index of the zone a call changed, 0 when it changed none
ChangedZone(before, after) ==
    IF \E i \in DOMAIN before : after[i] # before[i]
    THEN CHOOSE i \in DOMAIN before : after[i] # before[i]
    ELSE 0

InitCommon ==
    /\ veh_signals = NoAttr
    /\ veh_prediction = <<-6000, 0>>
    /\ veh_trajectories = NoAttr
    /\ variables = InitPrimal(vehicles)
    /\ dual_variables = InitDual
    /\ iteration = 0
    /\ update_times = <<>>
    /\ ticks = 0
    /\ call = NoCall

Init ==
    /\ \E lead \in LeadVehicles, n \in 1..MaxVehicles :
          vehicles = [k \in 1..n |-> IF k = 1 THEN lead ELSE Follower(k - 1)]
    /\ syslimit \in {"norm_2", "norm_inf"}
    /\ danger_zones \in ZoneLists
    /\ start_time = 0
    /\ verbose = DefaultVerbose
    /\ InitCommon

(***************************************************************************)
(* Operations.                                                             *)
(***************************************************************************)
\* Problem.enlarge_danger_zones()
EnlargeDangerZones ==
    \E size \in VehSize(vehicles[1].shapes) :
    LET r == enlarge_danger_zones(danger_zones, vehicles, veh_signals, veh_prediction,
                                  veh_trajectories, syslimit, size)
    IN /\ danger_zones' = r.danger_zones
       /\ call' = [call EXCEPT !.op = "enlarge_danger_zones", !.raised = r.raised,
                               !.enlarged = ChangedZone(danger_zones, r.danger_zones)]
       /\ UNCHANGED <<vehicles, syslimit, veh_signals, veh_prediction, veh_trajectories,
                      variables, dual_variables, iteration, update_times, start_time,
                      verbose, ticks>>

\* Problem.update_vehicle_limits()
UpdateVehicleLimits ==
    /\ vehicles' = update_vehicle_limits(danger_zones, vehicles, veh_signals,
                                         veh_prediction, syslimit)
    /\ call' = [call EXCEPT !.op = "update_vehicle_limits", !.raised = "none", !.enlarged = 0]
    /\ UNCHANGED <<syslimit, veh_signals, veh_prediction, veh_trajectories, danger_zones,
                   variables, dual_variables, iteration, update_times, start_time,
                   verbose, ticks>>

\* Problem.simulate(): the vehicles move and record their new state
Simulate(pos) ==
    /\ veh_signals' = <<pos>>
    /\ call' = [call EXCEPT !.op = "simulate", !.raised = "none", !.enlarged = 0]
    /\ UNCHANGED <<vehicles, syslimit, veh_prediction, veh_trajectories, danger_zones,
                   variables, dual_variables, iteration, update_times, start_time,
                   verbose, ticks>>

\* the vehicle stores the trajectory of the last solution
StoreTrajectory(traj) ==
    /\ veh_trajectories' = traj
    /\ call' = [call EXCEPT !.op = "store", !.raised = "none", !.enlarged = 0]
    /\ UNCHANGED <<vehicles, syslimit, veh_signals, veh_prediction, danger_zones,
                   variables, dual_variables, iteration, update_times, start_time,
                   verbose, ticks>>

\* lines 194-195: a higher level removes a danger zone the vehicle has passed
RemoveZone(idx) ==
    /\ idx \in DOMAIN danger_zones
    /\ danger_zones' = SubSeq(danger_zones, 1, idx - 1)
                       \o SubSeq(danger_zones, idx + 1, Len(danger_zones))
    /\ call' = [call EXCEPT !.op = "remove_zone", !.raised = "none", !.enlarged = 0]
    /\ UNCHANGED <<vehicles, syslimit, veh_signals, veh_prediction, veh_trajectories,
                   variables, dual_variables, iteration, update_times, start_time,
                   verbose, ticks>>

Next ==
    \/ EnlargeDangerZones
    \/ UpdateVehicleLimits
    \/ \E pos \in Positions : Simulate(pos)
    \/ \E traj \in Trajectories : StoreTrajectory(traj)
    \/ \E idx \in 1..MaxZones : RemoveZone(idx)

Spec == Init /\ [][Next]_vars

(***************************************************************************)
(* The solve loop.                                                         *)
(***************************************************************************)
Times == {1, 2}

Durations == {1, 2}

SolvePositions == { <<-3000, 0>> }

\* a fleet for the solve loop: a first vehicle and copies of a further one
FleetVehicle(n_seg, n_spl) == MkVehicle(Circle(200), 2000, 2000, 2000, 1000, n_seg, n_spl)

Fleets ==
    { [k \in 1..n |-> IF k = 1 THEN FleetVehicle(seg1, 2) ELSE FleetVehicle(seg2, spl2)] :
          n \in 1..MaxVehicles, seg1 \in 1..MaxSeg, seg2 \in 1..MaxSeg, spl2 \in {2, 3} }

\* the solve loop builds its own guesses, which differ between the vehicles
\* in the number of segments only
SolveFleets == { f \in Fleets : \A k \in DOMAIN f : f[k].n_spl = f[1].n_spl }

InitSolve ==
    /\ vehicles \in SolveFleets
    /\ syslimit = "norm_2"
    /\ danger_zones \in { q \in ZoneLists : Len(q) <= 1 /\ \A i \in DOMAIN q : q[i].shape = Circle(1000) /\ q[i].position = <<0, 0>> }
    /\ start_time = 1
    /\ verbose \in {1, DefaultVerbose}
    /\ InitCommon

\* lines 110-135: the steps of one solve call in the order of the code
SolveOrder ==
    << "init_step", "enlarge_danger_zones", "update_vehicle_limits", "get_variables",
       "solver", "set_variables", "status" >>

\* Problem.solve(current_time, update_time); update_time only reaches the
\* init_step hook, which does nothing by default (lines 479-480).  The call
\* record keeps the steps that ran and, with the solver invocation, the
\* velocity limits in force when the solver was invoked.
SolveGovernorFirst(current_time, status, t_upd) ==
    \E size \in VehSize(vehicles[1].shapes) :
    LET t == current_time - start_time
        vehs1 == update_vehicle_limits(danger_zones, vehicles, veh_signals,
                                       veh_prediction, syslimit)
        e == enlarge_danger_zones(danger_zones, vehicles, veh_signals, veh_prediction,
                                  veh_trajectories, syslimit, size)
        x == SolverPrimal(vehicles, ticks + 1)
        lam_g == SolverDual(ticks + 1)
        h == StatusHandling(x.splines, vehs1, status, t)
        invocation == [x0 |-> variables, lam_g0 |-> dual_variables, x |-> x,
                       lam_g |-> lam_g, status |-> status, time |-> t, tick |-> ticks + 1,
                       prev_status |-> IF call.last = <<>> THEN "none" ELSE call.last[1].status,
                       limits |-> [k \in DOMAIN vehs1 |-> vehs1[k].vmax]]
    IN /\ ticks < MaxTicks
       /\ ticks' = ticks + 1
       /\ danger_zones' = e.danger_zones
       /\ vehicles' = vehs1
       /\ variables' = [x EXCEPT !.splines = h.splines]
       /\ dual_variables' = lam_g
       /\ call' = [call EXCEPT !.op = "solve", !.raised = h.raised,
                               !.enlarged = ChangedZone(danger_zones, e.danger_zones),
                               !.last = <<invocation>>, !.steps = SolveOrder]
       /\ IF h.raised # "none"
          THEN UNCHANGED <<iteration, update_times>>
          ELSE /\ iteration' = NextIteration(iteration, verbose)
               /\ update_times' = Append(update_times, t_upd)
       /\ UNCHANGED <<syslimit, veh_signals, veh_prediction, veh_trajectories, start_time,
                      verbose>>

Solve(current_time, status, t_upd) ==
    \E size \in VehSize(vehicles[1].shapes) :
    LET t == current_time - start_time
        e == enlarge_danger_zones(danger_zones, vehicles, veh_signals, veh_prediction,
                                  veh_trajectories, syslimit, size)
        vehs1 == update_vehicle_limits(e.danger_zones, vehicles, veh_signals,
                                       veh_prediction, syslimit)
        var == variables
        dual_var == dual_variables
        x == SolverPrimal(vehicles, ticks + 1)
        lam_g == SolverDual(ticks + 1)
        h == StatusHandling(x.splines, vehs1, status, t)
        invocation == [x0 |-> var, lam_g0 |-> dual_var, x |-> x, lam_g |-> lam_g,
                       status |-> status, time |-> t, tick |-> ticks + 1,
                       prev_status |-> IF call.last = <<>> THEN "none" ELSE call.last[1].status,
                       limits |-> [k \in DOMAIN vehs1 |-> vehs1[k].vmax]]
    IN /\ ticks < MaxTicks
       /\ ticks' = ticks + 1
       /\ danger_zones' = e.danger_zones
       /\ IF e.raised # "none"
          THEN /\ call' = [call EXCEPT !.op = "solve", !.raised = e.raised,
                                       !.enlarged = ChangedZone(danger_zones, e.danger_zones),
                                       !.steps = SubSeq(SolveOrder, 1, 2)]
               /\ UNCHANGED <<vehicles, variables, dual_variables, iteration, update_times>>
          ELSE /\ vehicles' = vehs1
               /\ variables' = [x EXCEPT !.splines = h.splines]
               /\ dual_variables' = lam_g
               /\ call' = [call EXCEPT !.op = "solve", !.raised = h.raised,
                                       !.enlarged = ChangedZone(danger_zones, e.danger_zones),
                                       !.last = <<invocation>>, !.steps = SolveOrder]
               /\ IF h.raised # "none"
                  THEN UNCHANGED <<iteration, update_times>>
                  ELSE /\ iteration' = NextIteration(iteration, verbose)
                       /\ update_times' = Append(update_times, t_upd)
       /\ UNCHANGED <<syslimit, veh_signals, veh_prediction, veh_trajectories, start_time,
                      verbose>>

NextSolve ==
    \/ \E current_time \in Times, status \in ReturnStatus, t_upd \in Durations :
          Solve(current_time, status, t_upd)
    \/ \E pos \in SolvePositions : Simulate(pos)

SpecSolve == InitSolve /\ [][NextSolve]_vars

(***************************************************************************)
(* The helpers a caller uses between ticks: reset_init_guess with a        *)
(* supplied guess.                                                         *)
(***************************************************************************)
\* an array the caller supplies for segment l, with the given column count
UserArray(l, cols) == [src |-> "user", id |-> l, cols |-> cols]

\* the init_guess arguments: None, a bare array, and lists of 0..MaxSeg arrays
Guesses ==
    {None}
    \cup { [kind |-> "array", value |-> UserArray(1, c)] : c \in {2, 3} }
    \cup { [kind |-> "list", items |-> [l \in 1..n |-> UserArray(l, cols[l])]] :
              n \in 0..MaxSeg, cols \in [1..MaxSeg -> {2, 3}] }

\* one vehicle's state: a scalar, a list of floats, an array
StateVector == List(<<Float(1), Float(2)>>)

StateArray == Array(<<Float(1), Float(2)>>)

\* the states arguments: None, one vehicle's value bare, and lists of values
PredictStates ==
    { None, Float(1), StateVector, StateArray, List(<<>>),
      List(<<None>>), List(<<Float(1)>>), List(<<StateVector>>), List(<<StateArray>>),
      List(<<StateVector, StateArray>>) }

PredictInputs == { None, StateVector }

PredictDinputs == { None, StateArray }

InitHelpers ==
    /\ vehicles \in Fleets
    /\ syslimit = "norm_2"
    /\ danger_zones = <<>>
    /\ start_time = 1
    /\ verbose = DefaultVerbose
    /\ InitCommon

\* Problem.reset_init_guess(init_guess); the blocks written before a raise stay
ResetInitGuess(init_guess) ==
    LET r == reset_init_guess(variables.splines, vehicles, init_guess)
    IN /\ variables' = [variables EXCEPT !.splines = r.splines]
       /\ call' = [call EXCEPT !.op = "reset_init_guess", !.raised = r.raised,
                               !.enlarged = 0, !.arg = init_guess, !.handed = NoAttr]
       /\ UNCHANGED <<vehicles, syslimit, veh_signals, veh_prediction, veh_trajectories,
                      danger_zones, dual_variables, iteration, update_times, start_time,
                      verbose, ticks>>

\* Problem.predict(current_time, predict_time, sample_time, states, inputs,
\* dinputs, delay, enforce_states, enforce_inputs)
Predict(current_time, states, inputs, dinputs, enforce_states) ==
    LET r == predict(vehicles, start_time, current_time, states, inputs, dinputs,
                     enforce_states, FALSE)
    IN /\ call' = [call EXCEPT !.op = "predict", !.raised = r.raised, !.enlarged = 0,
                               !.arg = [current_time |-> current_time, states |-> states,
                                        inputs |-> inputs, dinputs |-> dinputs,
                                        enforce_states |-> enforce_states],
                               !.handed = r.handed]
       /\ UNCHANGED <<vehicles, syslimit, veh_signals, veh_prediction, veh_trajectories,
                      danger_zones, variables, dual_variables, iteration, update_times,
                      start_time, verbose, ticks>>

NextHelpers ==
    \/ \E init_guess \in Guesses : ResetInitGuess(init_guess)
    \/ \E current_time \in Times, states \in PredictStates, inputs \in PredictInputs,
          dinputs \in PredictDinputs, enforce_states \in BOOLEAN :
          Predict(current_time, states, inputs, dinputs, enforce_states)

SpecHelpers == InitHelpers /\ [][NextHelpers]_vars

(***************************************************************************)
(* Properties.                                                             *)
(***************************************************************************)
\* the dimensions of a shape as old_dimensions lists them
Dimensions(shape) ==
    IF shape.type = "Circle" THEN <<shape.radius>> ELSE <<shape.width, shape.height>>

\* the zone the adapter looks at in the current state
ClosestZone == ClosestZoneLoop(danger_zones, VehPos(veh_signals, veh_prediction), 1, <<>>, 0)

\* the zones that overlap the first vehicle in the current state
Overlapping ==
    { i \in DOMAIN danger_zones :
        shapes_overlap(vehicles[1].shapes, VehPos(veh_signals, veh_prediction),
                       danger_zones[i].shape, ZonePos(danger_zones[i])) }

ActiveBounds(vehicle) ==
    [vmax |-> vehicle.vmax, vxmin |-> vehicle.vxmin, vymin |-> vehicle.vymin,
     vxmax |-> vehicle.vxmax, vymax |-> vehicle.vymax]

SetMax(S) == CHOOSE m \in S : \A n \in S : n <= m

SetMin(S) == CHOOSE m \in S : \A n \in S : m <= n

\* C1: a call of enlarge_danger_zones changes the shape of a zone only if the
\* zone carries no old_dimensions before the call and carries them after it,
\* and it changes nothing at all of a zone that already carries old_dimensions.
C1_EnlargedAtMostOnce ==
    [][call'.op = "enlarge_danger_zones" =>
          /\ Len(danger_zones') = Len(danger_zones)
          /\ \A i \in DOMAIN danger_zones :
                /\ hasattr(danger_zones[i].old_dimensions) => danger_zones'[i] = danger_zones[i]
                /\ danger_zones'[i].shape # danger_zones[i].shape =>
                      hasattr(danger_zones'[i].old_dimensions)]_vars

\* C1 witness: a call that found its closest zone already enlarged and left it
C1_Witness ==
    /\ call.op = "enlarge_danger_zones"
    /\ call.raised = "none"
    /\ call.enlarged = 0
    /\ danger_zones # <<>>
    /\ vehicles[1].shapes.type = "Circle"
    /\ hasattr(danger_zones[ClosestZone].old_dimensions)
    /\ Dimensions(danger_zones[ClosestZone].shape) # danger_zones[ClosestZone].old_dimensions

\* C2: every zone that carries old_dimensions has each dimension greater than
\* or equal to the recorded one.
C2_Monotone ==
    \A i \in DOMAIN danger_zones :
        hasattr(danger_zones[i].old_dimensions) =>
            \A d \in DOMAIN danger_zones[i].old_dimensions :
                Dimensions(danger_zones[i].shape)[d] >= danger_zones[i].old_dimensions[d]

\* C3: after an update_vehicle_limits call in which no zone overlaps the
\* vehicle, every vehicle's active bounds are its own original bounds.
C3_RestoredWhenOutside ==
    (call.op = "update_vehicle_limits" /\ Overlapping = {}) =>
        \A k \in DOMAIN vehicles : ActiveBounds(vehicles[k]) = vehicles[k].original_bounds

\* C4: after an update_vehicle_limits call in which several zones overlap the
\* vehicle, the bounds of the mode are the intersection of the zones' ranges.
C4_Intersection ==
    (call.op = "update_vehicle_limits" /\ Cardinality(Overlapping) >= 2) =>
        \A k \in DOMAIN vehicles :
            IF syslimit = "norm_inf"
            THEN /\ vehicles[k].vxmin = SetMax({ danger_zones[i].bounds.vxmin : i \in Overlapping })
                 /\ vehicles[k].vymin = SetMax({ danger_zones[i].bounds.vymin : i \in Overlapping })
                 /\ vehicles[k].vxmax = SetMin({ danger_zones[i].bounds.vxmax : i \in Overlapping })
                 /\ vehicles[k].vymax = SetMin({ danger_zones[i].bounds.vymax : i \in Overlapping })
            ELSE vehicles[k].vmax = SetMin({ danger_zones[i].bounds.vmax : i \in Overlapping })

\* the characteristic size a call that got past lines 206-211 works with
SizeUsed ==
    (CHOOSE size \in VehSize(vehicles[1].shapes) : size.raised = "none").value

\* the case C8 is about: the call just enlarged circular zone i in scalar mode
\* and the zone's limit does not exceed the vehicle's
ScalarCircleEnlarged(i) ==
    /\ call.op = "enlarge_danger_zones"
    /\ call.enlarged = i
    /\ i \in DOMAIN danger_zones
    /\ danger_zones[i].shape.type = "Circle"
    /\ syslimit = "norm_2"
    /\ danger_zones[i].bounds.vmax <= vehicles[1].vmax
    /\ vehicles[1].amax > 0

RadiusMargin(i) == danger_zones[i].shape.radius - danger_zones[i].old_dimensions[1]

EndToEndCase ==
    /\ call.op = "enlarge_danger_zones"
    /\ call.enlarged = 1
    /\ Len(vehicles) = 1
    /\ Len(danger_zones) = 1
    /\ syslimit = "norm_2"
    /\ vehicles[1].shapes = Circle(300)
    /\ vehicles[1].vmax = 2000
    /\ vehicles[1].amax = 1000
    /\ danger_zones[1].shape.type = "Circle"
    /\ danger_zones[1].bounds.vmax = 500

\* C9 as stated: the radius after the first call is old_radius + 2.075
C9_Original == EndToEndCase => RadiusMargin(1) = 2075

\* C9 amended: the radius after the first call is old_radius + 2.175
\* (brake distance 1.875 plus the vehicle radius 0.3)
C9_EndToEndRadius == EndToEndCase => RadiusMargin(1) = 2175

\* C9 witness: the end-to-end case has happened
C9_Witness == EndToEndCase /\ danger_zones[1].shape.radius = 1000 + 2175

\* the most restrictive bounds over the zones of S
MostRestrictive(S) ==
    [vmax  |-> SetMin({ danger_zones[i].bounds.vmax : i \in S }),
     vxmin |-> SetMax({ danger_zones[i].bounds.vxmin : i \in S }),
     vymin |-> SetMax({ danger_zones[i].bounds.vymin : i \in S }),
     vxmax |-> SetMin({ danger_zones[i].bounds.vxmax : i \in S }),
     vymax |-> SetMin({ danger_zones[i].bounds.vymax : i \in S })]

\* the bounds of the mode are those of b, the others the vehicle's original ones
HasBounds(vehicle, b) ==
    IF syslimit = "norm_inf"
    THEN ActiveBounds(vehicle) = [b EXCEPT !.vmax = vehicle.original_bounds.vmax]
    ELSE ActiveBounds(vehicle) = [vehicle.original_bounds EXCEPT !.vmax = b.vmax]

\* C10: after an update_vehicle_limits call with a non-empty zone list every
\* vehicle has either the bound accumulated (the most restrictive one) over all
\* the zones overlapping in this call, or, when none overlaps, its original bounds.
C10_TwoStates ==
    (call.op = "update_vehicle_limits" /\ danger_zones # <<>>) =>
        IF Overlapping # {}
        THEN \A k \in DOMAIN vehicles : HasBounds(vehicles[k], MostRestrictive(Overlapping))
        ELSE \A k \in DOMAIN vehicles : ActiveBounds(vehicles[k]) = vehicles[k].original_bounds

\* the last call was a solve call that reached the solver
SolverRan == call.op = "solve" /\ call.last # <<>> /\ call.last[1].tick = ticks

\* every spline block of every vehicle holds that vehicle's default guess
DefaultGuessInPlace ==
    \A k \in DOMAIN vehicles : \A l \in 1..vehicles[k].n_seg :
        variables.splines[k][l] = get_init_spline_value(k, vehicles[k])

\* the tick C5 is about: not the first one, neither by count nor by time, and
\* the solver reported Maximum_CpuTime_Exceeded
TimeoutAfterFirstTick ==
    /\ SolverRan
    /\ call.last[1].tick > 1
    /\ call.last[1].time # 0
    /\ call.last[1].status = "Maximum_CpuTime_Exceeded"

\* C5: a tick after the first whose status is Maximum_CpuTime_Exceeded
\* completes, and afterwards every vehicle's spline blocks hold that vehicle's
\* own default guess.
C5_DefaultGuessAfterTimeout ==
    TimeoutAfterFirstTick => (call.raised = "none" /\ DefaultGuessInPlace)

\* C6: whatever the return status, a solve call that reached the solver raises
\* nothing and has appended its duration to update_times.
C6_StatusNeverRaises ==
    SolverRan => (call.raised = "none" /\ update_times # <<>>)

\* C7: when the previous solver call ended with success or with a failure other
\* than the timeout, the next solver call starts from the primal and dual
\* vectors that previous call returned.
C7_WarmStart ==
    [][(/\ call'.op = "solve"
        /\ call'.last # <<>>
        /\ call'.last[1].tick = ticks'
        /\ call.last # <<>>
        /\ call.last[1].status # "Maximum_CpuTime_Exceeded") =>
          /\ call'.last[1].x0 = call.last[1].x
          /\ call'.last[1].lam_g0 = call.last[1].lam_g]_vars

\* C7 witness: a solver call after a failed (not timed out) one that started
\* from the failed call's result
C7_Witness ==
    /\ SolverRan
    /\ call.last[1].prev_status = "Infeasible_Problem_Detected"
    /\ call.last[1].x0 = SolverPrimal(vehicles, ticks - 1)
    /\ call.last[1].lam_g0 = SolverDual(ticks - 1)

\* the step is a solve call that ran to its end
CompletedSolve == call'.op = "solve" /\ ticks' = ticks + 1 /\ call'.raised = "none"

\* C11 as stated: the iteration counter and the number of entries of
\* update_times both equal the number of completed solve calls, so they are
\* equal to each other, whatever the verbose level.
C11_Original == iteration = Len(update_times)

\* C11 amended: every completed solve call appends exactly one entry to
\* update_times and leaves the earlier entries as they were, and no other step
\* touches update_times or iteration; the iteration counter equals the number
\* of entries when verbose >= 2 and stays 0 when verbose < 2.
C11_Diagnostics ==
    /\ [](iteration = IF verbose >= 2 THEN Len(update_times) ELSE 0)
    /\ [][IF CompletedSolve
          THEN /\ Len(update_times') = Len(update_times) + 1
               /\ SubSeq(update_times', 1, Len(update_times)) = update_times
          ELSE UNCHANGED <<iteration, update_times>>]_vars

\* C11 witness: two solve calls completed with verbose 1, durations 1 then 2
C11_Witness ==
    /\ call.op = "solve"
    /\ call.raised = "none"
    /\ verbose = 1
    /\ update_times = <<1, 2>>
    /\ iteration = 0

\* the guess of the last reset_init_guess call as the list of segments supplied
SuppliedSegments ==
    IF call.arg.kind = "list" THEN call.arg.items ELSE <<call.arg.value>>

\* the supplied guess disagrees with some vehicle: in the number of segments or
\* in the column count of some segment
GuessMismatch ==
    \E k \in DOMAIN vehicles :
        \/ Len(SuppliedSegments) # vehicles[k].n_seg
        \/ \E l \in DOMAIN SuppliedSegments : SuppliedSegments[l].cols # vehicles[k].n_spl

\* C12: reset_init_guess with a supplied guess raises ValueError if for some
\* vehicle the number of supplied segments differs from n_seg or a segment's
\* column count differs from n_spl, and raises nothing otherwise.
C12_GuessValidation ==
    (call.op = "reset_init_guess" /\ call.arg # None) =>
        IF GuessMismatch
        THEN call.raised \in {"ValueError: spline segment", "ValueError: vehicle spline"}
        ELSE call.raised = "none"

\* C12 witness: a guess that fits the first vehicle was rejected because of the
\* column count of the second vehicle
C12_Witness ==
    /\ call.op = "reset_init_guess"
    /\ call.arg # None
    /\ Len(vehicles) = 2
    /\ Len(SuppliedSegments) = vehicles[1].n_seg
    /\ \A l \in DOMAIN SuppliedSegments : SuppliedSegments[l].cols = vehicles[1].n_spl
    /\ call.raised = "ValueError: vehicle spline"

\* a non-empty list of floats
IsFloatList(v) ==
    v.kind = "list" /\ v.items # <<>> /\ \A i \in DOMAIN v.items : v.items[i].kind = "float"

\* the last call was predict with a single vehicle
SinglePredict == call.op = "predict" /\ Len(vehicles) = 1

\* what the last predict call would have done had it been given `states`
PredictWith(states) ==
    predict(vehicles, start_time, call.arg.current_time, states, call.arg.inputs,
            call.arg.dinputs, call.arg.enforce_states, FALSE)

\* the last predict call did what predict called with [states] does
SameAsWrapped ==
    PredictWith(List(<<call.arg.states>>)) = [handed |-> call.handed, raised |-> call.raised]

\* C13 as stated: with one vehicle, predict(v) hands the vehicle what
\* predict([v]) hands it, for v a scalar float, a list of floats, an array or None.
C13_Original ==
    (/\ SinglePredict
     /\ \/ call.arg.states = None
        \/ call.arg.states.kind \in {"float", "array"}
        \/ IsFloatList(call.arg.states)) => SameAsWrapped

\* C13 amended: with one vehicle, predict(v) hands the vehicle what predict([v])
\* hands it when v is None, an array or a non-empty list of floats; for a scalar
\* float v, predict(v) hands the vehicle v and predict([v]) hands it the list [v].
C13_BareStates ==
    /\ (/\ SinglePredict
        /\ \/ call.arg.states = None
           \/ call.arg.states.kind = "array"
           \/ IsFloatList(call.arg.states)) =>
          (SameAsWrapped /\ call.raised = "none" /\ call.handed[1].states = call.arg.states)
    /\ (SinglePredict /\ call.arg.states.kind = "float") =>
          /\ call.handed[1].states = call.arg.states
          /\ PredictWith(List(<<call.arg.states>>)).handed[1].states = List(<<call.arg.states>>)

\* C13 witness: predict was called with a bare list of floats and one vehicle
C13_Witness ==
    /\ SinglePredict
    /\ call.raised = "none"
    /\ call.arg.states = StateVector
    /\ call.handed[1].states = StateVector
    /\ PredictWith(List(<<StateVector>>)).handed[1].states = StateVector

\* the step is a solve call that reached the solver
SolverStep == call'.op = "solve" /\ ticks' = ticks + 1 /\ call'.last # <<>>
              /\ call'.last[1].tick = ticks'

\* C14: the steps of a solve call run in the order init_step,
\* enlarge_danger_zones, update_vehicle_limits, snapshot, solver, storing,
\* status handling, each at most once (the steps that ran are a prefix of that
\* order); the governor works on the zones as this call's enlargement left
\* them, the solver is invoked under the limits the governor has set and
\* starts from the variables as they were before the call, and status handling
\* works on the stored result.
C14_StepOrder ==
    [][(call'.op = "solve" /\ ticks' = ticks + 1) =>
          /\ call'.steps = SubSeq(SolveOrder, 1, Len(call'.steps))
          /\ SolverStep =>
                /\ call'.steps = SolveOrder
                /\ vehicles' = update_vehicle_limits(danger_zones', vehicles, veh_signals,
                                                     veh_prediction, syslimit)
                /\ call'.last[1].limits = [k \in DOMAIN vehicles' |-> vehicles'[k].vmax]
                /\ call'.last[1].x0 = variables
                /\ call'.last[1].lam_g0 = dual_variables
                /\ dual_variables' = call'.last[1].lam_g
                /\ variables'.rest = call'.last[1].x.rest
                /\ \A k \in DOMAIN vehicles : \A l \in 1..vehicles[k].n_seg :
                      variables'.splines[k][l] \in
                          { call'.last[1].x.splines[k][l] }
                          \cup { get_init_spline_value(j, vehicles[j]) : j \in DOMAIN vehicles }]_vars

\* C14 witness: a solve call enlarged the zone and, in the same call, the
\* governor restricted the vehicle, which touches the enlarged zone only; the
\* solver ran under the restricted limit
C14_Witness ==
    /\ SolverRan
    /\ call.steps = SolveOrder
    /\ call.enlarged = 1
    /\ VehPos(veh_signals, veh_prediction) = <<-3000, 0>>
    /\ danger_zones[1].old_dimensions = <<1000>>
    /\ vehicles[1].vmax = 500
    /\ call.last[1].limits[1] = 500

\* zone i as it was before it was enlarged
Original(i) ==
    [danger_zones[i] EXCEPT !.old_dimensions = NoAttr,
                            !.shape = IF danger_zones[i].shape.type = "Circle"
                                      THEN Circle(danger_zones[i].old_dimensions[1])
                                      ELSE Rectangle(danger_zones[i].old_dimensions[1],
                                                     danger_zones[i].old_dimensions[2])]

\* the last call was enlarge_danger_zones and it resized rectangular zone i
RectangleResized(i) ==
    /\ call.op = "enlarge_danger_zones"
    /\ call.raised = "none"
    /\ call.enlarged = i
    /\ i \in DOMAIN danger_zones
    /\ danger_zones[i].shape.type = "Rectangle"

\* the outer point the backward walk of that call stopped at
OuterPoint(i) ==
    LET zone == Original(i)
        k == FirstIntersection(vehicles[1].shapes, veh_trajectories, zone, 0)
    IN BackwardWalk(veh_trajectories,
                    Margin(vehicles[1], zone, syslimit, SizeUsed),
                    0, TrajAt(veh_trajectories, k), k).outer_point[1]

\* C15: when the outer point's x-distance from the zone centre exceeds half the
\* old width, the width and the height both grow by 2*(x_distance - old width/2).
C15_XBranch ==
    \A i \in DOMAIN danger_zones :
        RectangleResized(i) =>
            LET x_distance == distance_between_points(OuterPoint(i), ZonePos(danger_zones[i]))[1]
                w == danger_zones[i].old_dimensions[1]
            IN x_distance > FMul(w, 500) =>
                  /\ danger_zones[i].shape.width = w + 2 * (x_distance - FMul(w, 500))
                  /\ danger_zones[i].shape.height
                        = danger_zones[i].old_dimensions[2] + 2 * (x_distance - FMul(w, 500))

\* the last solve call went into reset_init_guess: it raised there or wrote
\* the first default block
ResetTriggered ==
    \/ call.raised # "none"
    \/ variables.splines[1][1] = get_init_spline_value(1, vehicles[1])

\* C16: a solve call whose status is Maximum_CpuTime_Exceeded resets the guess
\* exactly when it is not the first solve call of the run, whatever
\* current_time the caller passed.
C16_ResetAfterFirstCall ==
    (SolverRan /\ call.last[1].status = "Maximum_CpuTime_Exceeded") =>
        (ResetTriggered <=> call.last[1].tick > 1)

\* C17: a zone enlarged by a call is enlarged by the margin computed from the
\* first vehicle's original velocity limits, also when the governor has
\* restricted the vehicle's active limits before the call.
C17_MarginFromOriginalLimit ==
    \A i \in DOMAIN danger_zones :
        (call.op = "enlarge_danger_zones" /\ call.enlarged = i) =>
            danger_zones[i] =
                EnlargeZone(Original(i), vehicles[1], veh_trajectories,
                            Margin(RestoreOriginal(vehicles[1], syslimit), Original(i),
                                   syslimit, SizeUsed),
                            SizeUsed).zone

\* the last call enlarged circular zone i in per-axis mode
AxisCircleEnlarged(i) ==
    /\ call.op = "enlarge_danger_zones"
    /\ call.enlarged = i
    /\ i \in DOMAIN danger_zones
    /\ danger_zones[i].shape.type = "Circle"
    /\ syslimit = "norm_inf"

\* the old and the new limit of the axis with the larger reduction (x on a tie)
DominatingAxis(i) ==
    IF vehicles[1].vxmax - danger_zones[i].bounds.vxmax
          >= vehicles[1].vymax - danger_zones[i].bounds.vymax
    THEN [v |-> vehicles[1].vxmax, v0 |-> danger_zones[i].bounds.vxmax]
    ELSE [v |-> vehicles[1].vymax, v0 |-> danger_zones[i].bounds.vymax]

\* C18: in per-axis mode the brake distance is (v^2 - v0^2)/(2*axmax) with v
\* and v0 the old and new limit of the axis with the larger reduction, v >= v0
\* (stated with the quotient multiplied out; the margin is the brake distance
\* plus the vehicle's radius).
C18_AxisBrakeDistance ==
    \A i \in DOMAIN danger_zones :
        (AxisCircleEnlarged(i) /\ DominatingAxis(i).v >= DominatingAxis(i).v0) =>
            2 * vehicles[1].axmax * (RadiusMargin(i) - SizeUsed)
                = DominatingAxis(i).v * DominatingAxis(i).v
                  - DominatingAxis(i).v0 * DominatingAxis(i).v0

\* length of the path over the samples j..k of a trajectory (0-based indices)
RECURSIVE PathLength(_, _, _)
PathLength(traj, j, k) ==
    IF j >= k THEN 0
    ELSE euclidean_distance_between_points(traj[j + 1], traj[j + 2])
         + PathLength(traj, j + 1, k)

\* the call about to run walks back over the stored trajectory: the closest
\* zone is a rectangle that is not enlarged and the trajectory intersects it
WalkCase ==
    /\ danger_zones # <<>>
    /\ vehicles[1].shapes.type = "Circle"
    /\ danger_zones[ClosestZone].shape.type = "Rectangle"
    /\ ~hasattr(danger_zones[ClosestZone].old_dimensions)
    /\ hasattr(veh_trajectories)
    /\ FirstIntersection(vehicles[1].shapes, veh_trajectories, danger_zones[ClosestZone], 0) >= 0

\* C19: with k the first intersecting sample and d the required distance, the
\* walk raises if and only if the path over the samples 0..k is shorter than
\* d; otherwise the outer point is the sample with the largest index j <= k
\* whose path length to sample k is at least d, and the zone is resized from it.
C19_BackwardWalk ==
    [][(call'.op = "enlarge_danger_zones" /\ WalkCase) =>
          LET zone == danger_zones[ClosestZone]
              k == FirstIntersection(vehicles[1].shapes, veh_trajectories, zone, 0)
              d == Margin(vehicles[1], zone, syslimit, SizeUsed)
              far == { j \in 0..k : PathLength(veh_trajectories, j, k) >= d }
          IN /\ call'.raised = "RuntimeError: no point far enough"
                   <=> PathLength(veh_trajectories, 0, k) < d
             /\ PathLength(veh_trajectories, 0, k) >= d =>
                   /\ far # {}
                   /\ danger_zones'[ClosestZone]
                         = ResizeRectangle(zone, veh_trajectories[SetMax(far) + 1],
                                           SizeUsed).zone]_vars

\* C19 witness: a walk that used the whole path 0..k and stopped at sample 0
C19_Witness ==
    \E i \in DOMAIN danger_zones :
        /\ RectangleResized(i)
        /\ veh_trajectories = Line(-2000, 0, <<1000, 0>>, 3)
        /\ OuterPoint(i) = <<-2000, 0>>
        /\ danger_zones[i].shape.width = 4000

\* zone i is at least as near to the vehicle's planar position as zone j
\* (squared distances order the zones as the distances do)
AsNear(i, j) ==
    SqDist(Planar(VehPos(veh_signals, veh_prediction)), ZonePos(danger_zones[i]))
        <= SqDist(Planar(VehPos(veh_signals, veh_prediction)), ZonePos(danger_zones[j]))

\* the nearest zone, the first in the list among equally near ones
Nearest ==
    CHOOSE i \in DOMAIN danger_zones :
        /\ \A j \in DOMAIN danger_zones : AsNear(i, j)
        /\ \A j \in DOMAIN danger_zones : AsNear(j, i) => i <= j

\* C20: an enlarge_danger_zones call leaves every zone but the nearest one (the
\* first of equally near zones) as it was, and keeps the list of zones.
C20_OnlyNearestZone ==
    [][call'.op = "enlarge_danger_zones" =>
          /\ DOMAIN danger_zones' = DOMAIN danger_zones
          /\ \A i \in DOMAIN danger_zones :
                i # Nearest => danger_zones'[i] = danger_zones[i]]_vars

\* C20 witness: of two zones at the same distance the call enlarged the first
\* and left the second without old_dimensions
C20_Witness ==
    /\ call.op = "enlarge_danger_zones"
    /\ call.enlarged = 1
    /\ Len(danger_zones) = 2
    /\ AsNear(1, 2) /\ AsNear(2, 1)
    /\ hasattr(danger_zones[1].old_dimensions)
    /\ ~hasattr(danger_zones[2].old_dimensions)

\* the characteristic size a vehicle of this shape should have: the radius of a
\* circle, the larger side of a rectangle
CharacteristicSize(shape) ==
    IF shape.type = "Circle" THEN shape.radius ELSE Max2(shape.width, shape.height)

\* C21: an enlarge_danger_zones call for a circular or rectangular first vehicle
\* works with the characteristic size of that vehicle, the radius or
\* max(width, height): the zones it leaves and what it raises are those the
\* function gives with that size and no error in computing it.
C21_CharacteristicSize ==
    [][(/\ call'.op = "enlarge_danger_zones"
        /\ danger_zones # <<>>
        /\ vehicles[1].shapes.type \in {"Circle", "Rectangle"}) =>
          [danger_zones |-> danger_zones', raised |-> call'.raised]
              = enlarge_danger_zones(danger_zones, vehicles, veh_signals, veh_prediction,
                                     veh_trajectories, syslimit,
                                     [raised |-> "none",
                                      value |-> CharacteristicSize(vehicles[1].shapes)])]_vars

\* the call about to run, for a circular vehicle, finds a rectangle that is not
\* enlarged as its nearest zone
PendingRectangle ==
    /\ danger_zones # <<>>
    /\ vehicles[1].shapes.type = "Circle"
    /\ danger_zones[ClosestZone].shape.type = "Rectangle"
    /\ ~hasattr(danger_zones[ClosestZone].old_dimensions)

\* no trajectory is recorded, or none of its samples intersects the nearest zone
NoIntersection ==
    \/ ~hasattr(veh_trajectories)
    \/ FirstIntersection(vehicles[1].shapes, veh_trajectories,
                         danger_zones[ClosestZone], 0) = -1

\* the recorded trajectory intersects the nearest zone and the path up to the
\* first intersecting sample is at least as long as the required distance
IntersectionWithHistory ==
    /\ hasattr(veh_trajectories)
    /\ LET k == FirstIntersection(vehicles[1].shapes, veh_trajectories,
                                  danger_zones[ClosestZone], 0)
       IN /\ k >= 0
          /\ PathLength(veh_trajectories, 0, k)
                >= Margin(vehicles[1], danger_zones[ClosestZone], syslimit, SizeUsed)

\* the call marked the nearest zone and made it larger
NearestEnlarged ==
    LET before == danger_zones[ClosestZone]
        after == danger_zones'[ClosestZone]
    IN /\ hasattr(after.old_dimensions)
       /\ after.shape.width >= before.shape.width
       /\ after.shape.height >= before.shape.height
       /\ after.shape # before.shape

\* C22 (for a circular vehicle, whose size line 207 reads without fail): a call
\* that finds a not yet enlarged rectangle as its nearest zone, with no
\* recorded trajectory or none that intersects the zone, leaves every zone
\* (dimensions and old_dimensions) as it was and raises nothing, so the zone
\* stays eligible; a call for which the trajectory intersects the zone with
\* enough history enlarges it and raises nothing.
C22_DeferredRectangle ==
    [][(call'.op = "enlarge_danger_zones" /\ PendingRectangle) =>
          /\ NoIntersection =>
                (danger_zones' = danger_zones /\ call'.raised = "none")
          /\ IntersectionWithHistory =>
                (call'.raised = "none" /\ NearestEnlarged)]_vars

\* C23: a reset_init_guess call that raises its validation error has overwritten
\* no spline segment variable block of any vehicle.
C23_RejectedGuessWritesNothing ==
    [][(call'.op = "reset_init_guess" /\ call'.raised # "none") =>
          variables' = variables]_vars

====
